---- MODULE Spec2Model ----
(***************************************************************************)
(* Model of artifactory/commands/npm/common.go: the resolver               *)
(* setTypeRestriction, the transformer prepareConfigData, and the          *)
(* backup / createTempNpmrc / restore sequence around the project .npmrc.  *)
(***************************************************************************)
EXTENDS Integers, Sequences, FiniteSets, TLC

VARIABLES
    typeRestriction,  \* com.typeRestriction
    registry,         \* com.registry
    jsonOutput,       \* com.jsonOutput
    npmAuth,          \* com.npmAuth
    validKeys,        \* the keys isValidKey accepts
    fed,              \* the (key, value) pairs handed to setTypeRestriction so far
    data,             \* the argument of the last prepareConfigData call
    configData,       \* the bytes the last prepareConfigData call returned
    prepErr,          \* the error the last prepareConfigData call returned ("" is nil)
    runs,             \* number of prepareConfigData calls on this CommonArgs
    tpc,              \* position in prepareConfigData: idle, scanning, returned
    pos,              \* number of lines the scanner has yielded
    filteredConf,     \* the local filteredConf
    pc,               \* position of the command: the next call it makes
    files,            \* the working directory: file name -> file
    restoreNpmrcFunc, \* com.restoreNpmrcFunc: the paths the restore closure holds
    rawConfig,        \* what 'npm config ls' reports
    origNpmrc,        \* the project .npmrc before the command started
    failed,           \* the steps that have failed: fetch, transform, remove, write, npm
    ops,              \* file operations on the working directory, in order
    lastErr,          \* the error handed to restoreNpmrcAndError ("" is nil)
    restoreErr,       \* what the last call of the restore action returned
    restoreCalls,     \* number of calls of the restore action
    retErr            \* the error the command returns to its caller

comVars == <<registry, jsonOutput, npmAuth, validKeys>>
transformVars == <<data, configData, prepErr, runs, tpc, pos, filteredConf>>
runVars == <<pc, files, restoreNpmrcFunc, rawConfig, origNpmrc, failed, ops,
             lastErr, restoreErr, restoreCalls, retErr>>
vars == <<typeRestriction, fed, comVars, transformVars, runVars>>

(***************************************************************************)
(* Go string functions used by the code, computed on TLA+ strings.         *)
(***************************************************************************)

\* strings.Contains(s, sub)
Contains(s, sub) ==
    \E i \in 1..(Len(s) - Len(sub) + 1) : SubSeq(s, i, i + Len(sub) - 1) = sub

\* strings.HasPrefix(s, prefix)
HasPrefix(s, prefix) ==
    Len(s) >= Len(prefix) /\ SubSeq(s, 1, Len(prefix)) = prefix

\* strings.HasSuffix(s, suffix)
HasSuffix(s, suffix) ==
    Len(s) >= Len(suffix) /\ SubSeq(s, Len(s) - Len(suffix) + 1, Len(s)) = suffix

\* Position of the first occurrence of the one-character string c in s, 0 if none.
IndexOf(s, c) ==
    LET hits == {i \in 1..Len(s) : SubSeq(s, i, i) = c}
    IN IF hits = {} THEN 0 ELSE CHOOSE i \in hits : \A j \in hits : i <= j

WhiteSpace == {" ", "\t", "\r", "\n"}

\* strings.TrimSpace(s)
TrimSpace(s) ==
    LET keep == {i \in 1..Len(s) : SubSeq(s, i, i) \notin WhiteSpace}
    IN IF keep = {} THEN ""
       ELSE SubSeq(s, CHOOSE i \in keep : \A j \in keep : i <= j,
                      CHOOSE i \in keep : \A j \in keep : j <= i)

\* strings.SplitN(s, sep, 2) for a one-character separator.
SplitN2(s, sep) ==
    LET i == IndexOf(s, sep)
    IN IF i = 0 THEN <<s>>
       ELSE <<SubSeq(s, 1, i - 1), SubSeq(s, i + 1, Len(s))>>

\* strings.Split(s, sep) for a one-character separator.
RECURSIVE Split(_, _)
Split(s, sep) ==
    LET i == IndexOf(s, sep)
    IN IF i = 0 THEN <<s>>
       ELSE <<SubSeq(s, 1, i - 1)>> \o Split(SubSeq(s, i + 1, Len(s)), sep)

\* strings.Join(parts, "")
RECURSIVE Join(_)
Join(parts) ==
    IF parts = <<>> THEN "" ELSE Head(parts) \o Join(Tail(parts))

\* strconv.FormatBool(b)
FormatBool(b) == IF b THEN "true" ELSE "false"

(***************************************************************************)
(* biutils.TypeRestriction                                                 *)
(***************************************************************************)
DefaultRestriction == "DefaultRestriction"
All == "All"
DevOnly == "DevOnly"
ProdOnly == "ProdOnly"

TypeRestrictions == {DefaultRestriction, All, DevOnly, ProdOnly}

(***************************************************************************)
(* setTypeRestriction: the value of com.typeRestriction after the call,    *)
(* given its value tr before the call.                                     *)
(***************************************************************************)

\* Mutant: 'omit' is treated like a legacy key and only sets an unset state.
setTypeRestrictionOmitOnlyIfUnset(tr, key, value) ==
    IF tr # DefaultRestriction THEN tr
    ELSE IF key = "omit" THEN (IF Contains(value, "dev") THEN ProdOnly ELSE All)
    ELSE IF key = "only" THEN
        IF Contains(value, "prod") THEN ProdOnly
        ELSE IF Contains(value, "dev") THEN DevOnly
        ELSE tr
    ELSE IF key = "production" /\ Contains(value, "true") THEN ProdOnly
    ELSE tr

\* Mutant: the legacy keys are not guarded by "not set before" (last one wins).
setTypeRestrictionLegacyLastWins(tr, key, value) ==
    IF key = "omit" THEN (IF Contains(value, "dev") THEN ProdOnly ELSE All)
    ELSE IF key = "only" THEN
        IF Contains(value, "prod") THEN ProdOnly
        ELSE IF Contains(value, "dev") THEN DevOnly
        ELSE tr
    ELSE IF key = "production" /\ Contains(value, "true") THEN ProdOnly
    ELSE tr

setTypeRestriction(tr, key, value) ==
    IF key = "omit" THEN
        IF Contains(value, "dev") THEN ProdOnly ELSE All
    ELSE IF tr = DefaultRestriction THEN
        IF key = "only" THEN
            IF Contains(value, "prod") THEN ProdOnly
            ELSE IF Contains(value, "dev") THEN DevOnly
            ELSE tr
        ELSE IF key = "production" /\ Contains(value, "true") THEN ProdOnly
        ELSE tr
    ELSE tr

(***************************************************************************)
(* prepareConfigData                                                       *)
(***************************************************************************)

\* A line longer than bufio.MaxScanTokenSize, which bufio.Scanner refuses:
\* Scan returns false and scanner.Err() is bufio.ErrTooLong.  The line stands
\* for any such line; its content is never looked at by the code.
TooLongLine == "<line longer than bufio.MaxScanTokenSize>"
ErrTooLong == "bufio.Scanner: token too long"

\* bufio.ScanLines over the whole text: the lines without their newline, a
\* trailing carriage return dropped, no token for an empty remainder.
RECURSIVE ScanLines(_)
ScanLines(text) ==
    LET dropCR(l) == IF HasSuffix(l, "\r") THEN SubSeq(l, 1, Len(l) - 1) ELSE l
        i == IndexOf(text, "\n")
    IN IF text = "" THEN <<>>
       ELSE IF i = 0 THEN <<dropCR(text)>>
       ELSE <<dropCR(SubSeq(text, 1, i - 1))>> \o ScanLines(SubSeq(text, i + 1, Len(text)))

\* The lines scanner.Scan() yields before it returns false.
RECURSIVE Scanned(_)
Scanned(lines) ==
    IF lines = <<>> \/ Head(lines) = TooLongLine THEN <<>>
    ELSE <<Head(lines)>> \o Scanned(Tail(lines))

\* scanner.Err() once Scan has returned false.
ScannerErr(lines) ==
    IF \E i \in 1..Len(lines) : lines[i] = TooLongLine THEN ErrTooLong ELSE ""

\* isValidKey: the allow-list of keys that may be persisted.
isValidKey(key) == key \in validKeys

\* addArrayConfigs: every element of the bracketed, comma-separated value is
\* appended as a repeated assignment of the key.
RECURSIVE addArrayElems(_, _, _)
addArrayElems(conf, key, elems) ==
    IF elems = <<>> THEN conf
    ELSE addArrayElems(conf \o <<key \o "[] = " \o Head(elems), "\n">>, key, Tail(elems))

addArrayConfigs(conf, key, arrayValue) ==
    IF arrayValue = "[]" THEN conf
    ELSE addArrayElems(conf, key, Split(SubSeq(arrayValue, 2, Len(arrayValue) - 1), ","))

\* Mutant: the allow-list is not consulted; every 'left = right' line is kept.
loopBodyNoAllowList(acc, currOption) ==
    IF currOption = "" THEN acc
    ELSE LET splitOption == SplitN2(currOption, "=")
             key == TrimSpace(splitOption[1])
         IN IF Len(splitOption) = 2 THEN
                LET value == TrimSpace(splitOption[2])
                IN [filteredConf |->
                        IF HasPrefix(value, "[") /\ HasSuffix(value, "]")
                        THEN addArrayConfigs(acc.filteredConf, key, value)
                        ELSE acc.filteredConf \o <<currOption, "\n">>,
                    typeRestriction |-> setTypeRestriction(acc.typeRestriction, key, value),
                    fed |-> Append(acc.fed, <<key, value>>)]
            ELSE IF HasPrefix(splitOption[1], "@") THEN
                [acc EXCEPT !.filteredConf = @ \o <<splitOption[1], " = ", registry, "\n">>]
            ELSE acc

\* Mutant: a scalar line is emitted rebuilt from its trimmed key and value.
loopBodyNormalisesScalar(acc, currOption) ==
    IF currOption = "" THEN acc
    ELSE LET splitOption == SplitN2(currOption, "=")
             key == TrimSpace(splitOption[1])
         IN IF Len(splitOption) = 2 /\ isValidKey(key) THEN
                LET value == TrimSpace(splitOption[2])
                IN [filteredConf |->
                        IF HasPrefix(value, "[") /\ HasSuffix(value, "]")
                        THEN addArrayConfigs(acc.filteredConf, key, value)
                        ELSE acc.filteredConf \o <<key, " = ", value, "\n">>,
                    typeRestriction |-> setTypeRestriction(acc.typeRestriction, key, value),
                    fed |-> Append(acc.fed, <<key, value>>)]
            ELSE IF HasPrefix(splitOption[1], "@") THEN
                [acc EXCEPT !.filteredConf = @ \o <<splitOption[1], " = ", registry, "\n">>]
            ELSE acc

\* Mutant: only scalar pairs are passed to setTypeRestriction.
loopBodyFeedsScalarOnly(acc, currOption) ==
    IF currOption = "" THEN acc
    ELSE LET splitOption == SplitN2(currOption, "=")
             key == TrimSpace(splitOption[1])
         IN IF Len(splitOption) = 2 /\ isValidKey(key) THEN
                LET value == TrimSpace(splitOption[2])
                IN IF HasPrefix(value, "[") /\ HasSuffix(value, "]")
                   THEN [acc EXCEPT !.filteredConf =
                                        addArrayConfigs(acc.filteredConf, key, value)]
                   ELSE [filteredConf |-> acc.filteredConf \o <<currOption, "\n">>,
                         typeRestriction |->
                             setTypeRestriction(acc.typeRestriction, key, value),
                         fed |-> Append(acc.fed, <<key, value>>)]
            ELSE IF HasPrefix(splitOption[1], "@") THEN
                [acc EXCEPT !.filteredConf = @ \o <<splitOption[1], " = ", registry, "\n">>]
            ELSE acc

\* One iteration of the scanner loop on the line currOption; acc holds
\* filteredConf, com.typeRestriction and the pairs fed to the resolver.
loopBody(acc, currOption) ==
    IF currOption = "" THEN acc
    ELSE LET splitOption == SplitN2(currOption, "=")
             key == TrimSpace(splitOption[1])
         IN IF Len(splitOption) = 2 /\ isValidKey(key) THEN
                LET value == TrimSpace(splitOption[2])
                IN [filteredConf |->
                        IF HasPrefix(value, "[") /\ HasSuffix(value, "]")
                        THEN addArrayConfigs(acc.filteredConf, key, value)
                        ELSE acc.filteredConf \o <<currOption, "\n">>,
                    typeRestriction |-> setTypeRestriction(acc.typeRestriction, key, value),
                    fed |-> Append(acc.fed, <<key, value>>)]
            ELSE IF HasPrefix(splitOption[1], "@") THEN
                \* Override scoped registries (@scope = xyz)
                [acc EXCEPT !.filteredConf = @ \o <<splitOption[1], " = ", registry, "\n">>]
            ELSE acc

RECURSIVE scanLoop(_, _)
scanLoop(acc, lines) ==
    IF lines = <<>> THEN acc ELSE scanLoop(loopBody(acc, Head(lines)), Tail(lines))

\* Mutant: nothing is appended after the loop when the loop emitted nothing.
synthesizedSkipsEmptyConf(conf) ==
    IF conf = <<>> THEN <<>>
    ELSE conf \o <<"json = ", FormatBool(jsonOutput), "\n">>
              \o <<"registry = ", registry, "\n">>
              \o <<npmAuth>>

\* Mutant: the registry line is appended before the json line.
synthesizedRegistryFirst(conf) ==
    conf \o <<"registry = ", registry, "\n">>
                 \o <<"json = ", FormatBool(jsonOutput), "\n">>
                 \o <<npmAuth>>

\* The three appends after the loop.
synthesized(conf) ==
    conf \o <<"json = ", FormatBool(jsonOutput), "\n">>
                 \o <<"registry = ", registry, "\n">>
                 \o <<npmAuth>>

\* What prepareConfigData returns once the loop has ended with acc and
\* scanner.Err() is scanErr: lines 197-204.
afterLoop(acc, scanErr) ==
    IF scanErr # ""
    THEN [configData |-> "", err |-> scanErr,
          typeRestriction |-> acc.typeRestriction, fed |-> acc.fed]
    ELSE [configData |-> Join(synthesized(acc.filteredConf)), err |-> "",
          typeRestriction |-> acc.typeRestriction, fed |-> acc.fed]

\* prepareConfigData(data) called with com.typeRestriction = tr: the returned
\* bytes and error, and com.typeRestriction when it returns.
prepareConfigData(tr, text) ==
    afterLoop(scanLoop([filteredConf |-> <<>>, typeRestriction |-> tr, fed |-> <<>>],
                       Scanned(ScanLines(text))),
              ScannerErr(ScanLines(text)))

(***************************************************************************)
(* The working directory and the backup of the project .npmrc              *)
(***************************************************************************)
npmrcFileName == ".npmrc"
npmrcBackupFileName == "jfrog.npmrc.backup"

Absent == [exists |-> FALSE, content |-> ""]
File(bytes) == [exists |-> TRUE, content |-> bytes]

ErrPrerequisites == "npm executable not found"
ErrBackup == "backup: cannot read source file"
ErrFetch == "npm config ls: exit status 1"
ErrRemove == "remove .npmrc: permission denied"
ErrWrite == "write .npmrc: no space left on device"
ErrNpm == "npm install: exit status 1"
ErrRestoreDelete == "restore: cannot delete current file"
ErrRestoreMove == "restore: cannot move backup"

\* No restore closure (the zero value of restoreNpmrcFunc).
NoRestoreFunc == [set |-> FALSE, filePath |-> "", backupPath |-> ""]

\* commandUtils.BackupFile(filePath, backupPath): copies the file to the
\* backup location; a no-op that still yields the closure when the file does
\* not exist; fails when the file exists and cannot be read.
BackupFile(fs, filePath, backupPath, readable) ==
    IF ~fs[filePath].exists THEN
        [files |-> fs, err |-> "",
         restore |-> [set |-> TRUE, filePath |-> filePath, backupPath |-> backupPath]]
    ELSE IF readable THEN
        [files |-> [fs EXCEPT ![backupPath] = fs[filePath]], err |-> "",
         restore |-> [set |-> TRUE, filePath |-> filePath, backupPath |-> backupPath]]
    ELSE [files |-> fs, err |-> ErrBackup, restore |-> NoRestoreFunc]

\* The outcomes the restore closure can have in the state fs.
RestoreOutcomes(fs, h) ==
    {"ok"} \cup (IF fs[h.filePath].exists THEN {"deleteFails"} ELSE {})
           \cup (IF fs[h.backupPath].exists THEN {"moveFails"} ELSE {})

\* The restore closure: deletes the current file at the original path (if
\* any) and moves the backup back into place.
restoreFile(fs, h, outcome) ==
    IF outcome = "deleteFails" THEN [files |-> fs, err |-> ErrRestoreDelete]
    ELSE IF outcome = "moveFails"
    THEN [files |-> [fs EXCEPT ![h.filePath] = Absent], err |-> ErrRestoreMove]
    ELSE [files |-> [fs EXCEPT ![h.filePath] = fs[h.backupPath], ![h.backupPath] = Absent],
          err |-> ""]

\* Mutant: the backup call gets its two paths in the wrong order.
BackupFileArgsSwapped ==
    [filePath |-> npmrcBackupFileName, backupPath |-> npmrcFileName]

\* The arguments of the BackupFile call of preparePrerequisites.
BackupFileArgs ==
    [filePath |-> npmrcFileName, backupPath |-> npmrcBackupFileName]

\* removeNpmrcIfExists(workingDirectory)
removeNpmrcIfExists(fs, removable) ==
    IF ~fs[npmrcFileName].exists THEN [files |-> fs, err |-> "", ops |-> <<>>]
    ELSE IF removable
    THEN [files |-> [fs EXCEPT ![npmrcFileName] = Absent], err |-> "", ops |-> <<"remove">>]
    ELSE [files |-> fs, err |-> ErrRemove, ops |-> <<"remove">>]

\* ioutil.WriteFile(path, bytes, 0600): the file is created or truncated,
\* then written; a failure leaves no file, or a file with part of the bytes.
WriteOutcomes == {"ok", "openFails", "writeFails"}

WriteFile(fs, path, bytes, outcome) ==
    IF outcome = "ok" THEN [files |-> [fs EXCEPT ![path] = File(bytes)], err |-> ""]
    ELSE IF outcome = "openFails" THEN [files |-> fs, err |-> ErrWrite]
    ELSE [files |-> [fs EXCEPT ![path] = File(SubSeq(bytes, 1, Len(bytes) \div 2))],
          err |-> ErrWrite]

\* npm.GetConfigList: the dump, or no bytes and an error.
GetConfigList(ok) ==
    IF ok THEN [data |-> rawConfig, err |-> ""] ELSE [data |-> "", err |-> ErrFetch]

(***************************************************************************)
(* createTempNpmrc                                                         *)
(***************************************************************************)

\* Mutant: the error of GetConfigList is returned before the transformation.
errAfterPrepareKeepsFetchErr(fetchErr, prepareErr) ==
    IF fetchErr # "" THEN fetchErr ELSE prepareErr

\* The value of err tested at line 130: line 129 assigns it again, so what
\* GetConfigList returned in it is gone.
errAfterPrepare(fetchErr, prepareErr) == prepareErr

\* Mutant: the old .npmrc is removed before the error of the transformation
\* is tested.
afterPrepareRemovesFirst(fs, fetched, prepared, removable, writeOutcome) ==
    LET err == errAfterPrepare(fetched.err, prepared.err)
        removed == removeNpmrcIfExists(fs, removable)
        written == WriteFile(removed.files, npmrcFileName, prepared.configData, writeOutcome)
        stepsFailed == (IF fetched.err # "" THEN {"fetch"} ELSE {})
                           \cup (IF prepared.err # "" THEN {"transform"} ELSE {})
    IN IF removed.err # "" THEN
           [files |-> removed.files, err |-> removed.err, ops |-> removed.ops,
            failed |-> stepsFailed \cup {"remove"},
            data |-> fetched.data, prepared |-> prepared]
       ELSE IF err # "" THEN
           [files |-> removed.files, err |-> err, ops |-> removed.ops,
            failed |-> stepsFailed,
            data |-> fetched.data, prepared |-> prepared]
       ELSE [files |-> written.files, err |-> written.err,
             ops |-> removed.ops \o <<"write">>,
             failed |-> stepsFailed \cup (IF written.err # "" THEN {"write"} ELSE {}),
             data |-> fetched.data, prepared |-> prepared]

\* Lines 130-138, with what GetConfigList and prepareConfigData returned and
\* for given outcomes of the removal and of the write.
afterPrepare(fs, fetched, prepared, removable, writeOutcome) ==
    LET err == errAfterPrepare(fetched.err, prepared.err)
        removed == removeNpmrcIfExists(fs, removable)
        written == WriteFile(removed.files, npmrcFileName, prepared.configData, writeOutcome)
        stepsFailed == (IF fetched.err # "" THEN {"fetch"} ELSE {})
                           \cup (IF prepared.err # "" THEN {"transform"} ELSE {})
    IN IF err # "" THEN
           [files |-> fs, err |-> err, ops |-> <<>>, failed |-> stepsFailed,
            data |-> fetched.data, prepared |-> prepared]
       ELSE IF removed.err # "" THEN
           [files |-> removed.files, err |-> removed.err, ops |-> removed.ops,
            failed |-> stepsFailed \cup {"remove"},
            data |-> fetched.data, prepared |-> prepared]
       ELSE [files |-> written.files, err |-> written.err,
             ops |-> removed.ops \o <<"write">>,
             failed |-> stepsFailed \cup (IF written.err # "" THEN {"write"} ELSE {}),
             data |-> fetched.data, prepared |-> prepared]

\* createTempNpmrc in the working directory fs with com.typeRestriction = tr,
\* for given outcomes of the fetch, of the removal and of the write.
createTempNpmrc(fs, tr, fetchOk, removable, writeOutcome) ==
    afterPrepare(fs, GetConfigList(fetchOk),
                 prepareConfigData(tr, GetConfigList(fetchOk).data),
                 removable, writeOutcome)

(***************************************************************************)
(* restoreNpmrcAndError                                                    *)
(***************************************************************************)

\* Mutant: when the restore fails too, only its error is returned.
restoreNpmrcAndErrorRestoreErrOnly(err, restoreError) ==
    IF restoreError # "" THEN restoreError ELSE err

\* Mutant: the restore failure is dropped and err is returned as it is.
restoreNpmrcAndErrorDropsRestoreErr(err, restoreError) == err

\* The error restoreNpmrcAndError(err) returns when the restore action
\* returned restoreError.
restoreNpmrcAndError(err, restoreError) ==
    IF restoreError # ""
    THEN "Two errors occurred:\n " \o restoreError \o "\n " \o err
    ELSE err

(***************************************************************************)
(* The transformer on its own: prepareConfigData is called on a dump, and  *)
(* possibly once more on the same CommonArgs.                              *)
(***************************************************************************)
MaxLines == 2
MaxCalls == 2

LinePool ==
    { "omit = [dev]", "only = production", "production = true",
      "registry = https://old", "@myscope = https://old2", " @lead = https://old3",
      "cache=/home/u/.npm ", "; userconfig /home/u/.npmrc", "@noassign", "",
      TooLongLine }

RECURSIVE JoinLines(_)
JoinLines(lines) ==
    IF lines = <<>> THEN ""
    ELSE IF Len(lines) = 1 THEN Head(lines)
    ELSE Head(lines) \o "\n" \o JoinLines(Tail(lines))

\* The scenario of the specification's section 8.
ScenarioDump ==
    "omit = [dev]\nonly = production\nregistry = https://old\n@myscope = https://old2"

Dumps ==
    {JoinLines(ls) : ls \in UNION {[1..n -> LinePool] : n \in 0..MaxLines}}
        \cup {ScenarioDump, "only = dev\r\nomit = []\n"}

\* The dumps of a second call on the same CommonArgs.
SecondDumps == {"", "only = dev", "omit = []", "cache=/home/u/.npm "}

AllowLists ==
    { {"omit", "only", "production", "cache"},
      {"omit", "only", "production", "cache", "registry", "@myscope", "@lead"},
      {"cache", "registry"},
      {} }

InitCom ==
    /\ registry = "https://auth"
    /\ jsonOutput \in BOOLEAN
    /\ npmAuth = "//auth.line"
    /\ validKeys \in AllowLists

\* The command is not running.
RunIdle ==
    /\ pc = "idle"
    /\ files = [n \in {npmrcFileName, npmrcBackupFileName} |-> Absent]
    /\ restoreNpmrcFunc = NoRestoreFunc
    /\ rawConfig = ""
    /\ origNpmrc = Absent
    /\ failed = {}
    /\ ops = <<>>
    /\ lastErr = ""
    /\ restoreErr = ""
    /\ restoreCalls = 0
    /\ retErr = ""

InitTransform ==
    /\ InitCom
    /\ RunIdle
    /\ typeRestriction = DefaultRestriction
    /\ fed = <<>>
    /\ data = ""
    /\ pos = 0
    /\ filteredConf = <<>>
    /\ configData = ""
    /\ prepErr = ""
    /\ runs = 0
    /\ tpc = "idle"

\* The line the scanner yields next.
CurLine == ScanLines(data)[pos + 1]

\* prepareConfigData is entered: lines 174-176.
CallPrepareConfigData ==
    /\ tpc \in {"idle", "returned"}
    /\ runs < MaxCalls
    /\ data' \in (IF runs = 0 THEN Dumps ELSE SecondDumps)
    /\ pos' = 0
    /\ filteredConf' = <<>>
    /\ configData' = ""
    /\ prepErr' = ""
    /\ runs' = runs + 1
    /\ tpc' = "scanning"
    /\ UNCHANGED <<typeRestriction, fed, comVars, runVars>>

\* scanner.Scan() returns true and the loop body runs: lines 178-196.
ScanLine ==
    /\ tpc = "scanning"
    /\ pos < Len(ScanLines(data))
    /\ CurLine # TooLongLine
    /\ LET acc == loopBody([filteredConf |-> filteredConf,
                            typeRestriction |-> typeRestriction,
                            fed |-> fed], CurLine)
       IN /\ filteredConf' = acc.filteredConf
          /\ typeRestriction' = acc.typeRestriction
          /\ fed' = acc.fed
    /\ pos' = pos + 1
    /\ UNCHANGED <<data, configData, prepErr, runs, tpc, comVars, runVars>>

\* scanner.Scan() returns false: lines 197-204.
ScanEnd ==
    /\ tpc = "scanning"
    /\ IF pos < Len(ScanLines(data)) THEN CurLine = TooLongLine ELSE TRUE
    /\ IF pos < Len(ScanLines(data))
       THEN /\ configData' = ""
            /\ prepErr' = ErrTooLong
            /\ filteredConf' = filteredConf
       ELSE /\ filteredConf' = synthesized(filteredConf)
            /\ configData' = Join(synthesized(filteredConf))
            /\ prepErr' = ""
    /\ tpc' = "returned"
    /\ UNCHANGED <<typeRestriction, fed, data, pos, runs, comVars, runVars>>

NextTransform == CallPrepareConfigData \/ ScanLine \/ ScanEnd

SpecTransform == InitTransform /\ [][NextTransform]_vars

(***************************************************************************)
(* The command: preparePrerequisites, createTempNpmrc, the npm run, and    *)
(* the restore of the user's .npmrc.                                       *)
(***************************************************************************)
OriginalNpmrcs == {Absent, File(""), File("registry = https://mine\n; mine\n")}

RawConfigs ==
    {"", ScenarioDump, "only = dev\ncache=/home/u/.npm ", "omit = []\n" \o TooLongLine}

Init ==
    /\ registry = "https://auth"
    /\ jsonOutput = TRUE
    /\ npmAuth = "//auth.line"
    /\ validKeys = {"omit", "only", "production", "cache"}
    /\ typeRestriction = DefaultRestriction
    /\ fed = <<>>
    /\ data = ""
    /\ pos = 0
    /\ filteredConf = <<>>
    /\ configData = ""
    /\ prepErr = ""
    /\ runs = 0
    /\ tpc = "idle"
    /\ pc = "preparePrerequisites"
    /\ origNpmrc \in OriginalNpmrcs
    /\ files = [n \in {npmrcFileName, npmrcBackupFileName} |->
                    IF n = npmrcFileName THEN origNpmrc ELSE Absent]
    /\ restoreNpmrcFunc = NoRestoreFunc
    /\ rawConfig \in RawConfigs
    /\ failed = {}
    /\ ops = <<>>
    /\ lastErr = ""
    /\ restoreErr = ""
    /\ restoreCalls = 0
    /\ retErr = ""

\* preparePrerequisites: a step before the backup fails (lines 43-95), or the
\* backup is taken (line 97); the command returns its error.
PreparePrerequisites ==
    /\ pc = "preparePrerequisites"
    /\ \E earlyOk \in BOOLEAN, readable \in BOOLEAN :
        LET b == BackupFile(files, BackupFileArgs.filePath, BackupFileArgs.backupPath, readable)
        IN IF ~earlyOk THEN
               /\ retErr' = ErrPrerequisites
               /\ pc' = "done"
               /\ UNCHANGED <<files, restoreNpmrcFunc>>
           ELSE
               /\ files' = b.files
               /\ restoreNpmrcFunc' = b.restore
               /\ retErr' = b.err
               /\ pc' = IF b.err # "" THEN "done" ELSE "createTempNpmrc"
    /\ UNCHANGED <<typeRestriction, fed, comVars, transformVars, rawConfig, origNpmrc,
                   failed, ops, lastErr, restoreErr, restoreCalls>>

\* createTempNpmrc returns; on an error the command goes on to
\* restoreNpmrcAndError, otherwise to the npm run.
CreateTempNpmrc ==
    /\ pc = "createTempNpmrc"
    /\ \E fetchOk \in BOOLEAN, removable \in BOOLEAN, writeOutcome \in WriteOutcomes :
        \E c \in {createTempNpmrc(files, typeRestriction, fetchOk, removable, writeOutcome)} :
            /\ files' = c.files
            /\ ops' = ops \o c.ops
            /\ lastErr' = c.err
            /\ failed' = failed \cup c.failed
            /\ data' = c.data
            /\ configData' = c.prepared.configData
            /\ prepErr' = c.prepared.err
            /\ typeRestriction' = c.prepared.typeRestriction
            /\ fed' = c.prepared.fed
            /\ pc' = IF c.err # "" THEN "restoreNpmrcAndError" ELSE "runNpm"
    /\ UNCHANGED <<comVars, runs, tpc, pos, filteredConf, restoreNpmrcFunc, rawConfig,
                   origNpmrc, restoreErr, restoreCalls, retErr>>

\* The npm command runs with the override in place.
RunNpm ==
    /\ pc = "runNpm"
    /\ \E ok \in BOOLEAN :
        /\ lastErr' = IF ok THEN "" ELSE ErrNpm
        /\ failed' = IF ok THEN failed ELSE failed \cup {"npm"}
        /\ pc' = IF ok THEN "restore" ELSE "restoreNpmrcAndError"
    /\ UNCHANGED <<typeRestriction, fed, comVars, transformVars, files, restoreNpmrcFunc,
                   rawConfig, origNpmrc, ops, restoreErr, restoreCalls, retErr>>

\* restoreNpmrcAndError(lastErr): the restore action is called and the
\* command returns the error.
RestoreNpmrcAndError ==
    /\ pc = "restoreNpmrcAndError"
    /\ \E outcome \in RestoreOutcomes(files, restoreNpmrcFunc) :
        LET r == restoreFile(files, restoreNpmrcFunc, outcome)
        IN /\ files' = r.files
           /\ restoreErr' = r.err
           /\ retErr' = restoreNpmrcAndError(lastErr, r.err)
    /\ restoreCalls' = restoreCalls + 1
    /\ ops' = Append(ops, "restore")
    /\ pc' = "done"
    /\ UNCHANGED <<typeRestriction, fed, comVars, transformVars, restoreNpmrcFunc,
                   rawConfig, origNpmrc, failed, lastErr>>

\* The restore action after a successful npm run.
Restore ==
    /\ pc = "restore"
    /\ \E outcome \in RestoreOutcomes(files, restoreNpmrcFunc) :
        LET r == restoreFile(files, restoreNpmrcFunc, outcome)
        IN /\ files' = r.files
           /\ restoreErr' = r.err
           /\ retErr' = r.err
    /\ restoreCalls' = restoreCalls + 1
    /\ ops' = Append(ops, "restore")
    /\ pc' = "done"
    /\ UNCHANGED <<typeRestriction, fed, comVars, transformVars, restoreNpmrcFunc,
                   rawConfig, origNpmrc, failed, lastErr>>

Next ==
    \/ PreparePrerequisites
    \/ CreateTempNpmrc
    \/ RunNpm
    \/ RestoreNpmrcAndError
    \/ Restore

Spec == Init /\ [][Next]_vars

(***************************************************************************)
(* The resolver on its own: pairs are fed one at a time, starting from     *)
(* the zero value of CommonArgs.typeRestriction.                           *)
(***************************************************************************)
MaxPairs == 3

ResolverKeys == {"omit", "only", "production", "include"}
ResolverValues == {"dev", "production", "true", "false", "development,prod"}

InitResolver ==
    /\ RunIdle
    /\ registry = "https://auth"
    /\ jsonOutput = TRUE
    /\ npmAuth = "//auth.line"
    /\ validKeys = {}
    /\ typeRestriction = DefaultRestriction
    /\ fed = <<>>
    /\ data = ""
    /\ pos = 0
    /\ filteredConf = <<>>
    /\ configData = ""
    /\ prepErr = ""
    /\ runs = 0
    /\ tpc = "idle"

SetTypeRestriction ==
    /\ Len(fed) < MaxPairs
    /\ \E key \in ResolverKeys, value \in ResolverValues :
        /\ typeRestriction' = setTypeRestriction(typeRestriction, key, value)
        /\ fed' = Append(fed, <<key, value>>)
    /\ UNCHANGED <<comVars, transformVars, runVars>>

NextResolver == SetTypeRestriction

SpecResolver == InitResolver /\ [][NextResolver]_vars

(***************************************************************************)
(* Claims about the resolver                                               *)
(***************************************************************************)
OmitIdx == {i \in 1..Len(fed) : fed[i][1] = "omit"}
LegacyIdx == {i \in 1..Len(fed) : fed[i][1] \in {"only", "production"}}
MaxOf(S) == CHOOSE i \in S : \A j \in S : j <= i
MinOf(S) == CHOOSE i \in S : \A j \in S : i <= j

\* The policy an 'omit' value implies.
OmitPolicy(value) == IF Contains(value, "dev") THEN ProdOnly ELSE All

\* The policy a legacy pair implies on its own (DefaultRestriction: none).
LegacyPolicy(key, value) ==
    IF key = "only" /\ Contains(value, "prod") THEN ProdOnly
    ELSE IF key = "only" /\ Contains(value, "dev") THEN DevOnly
    ELSE IF key = "production" /\ Contains(value, "true") THEN ProdOnly
    ELSE DefaultRestriction

\* C1: whenever the pairs fed from Unset contain an 'omit' pair, the
\* TypeRestriction is the policy implied by the last 'omit' pair's value,
\* whatever 'only'/'production' pairs come before or after it.
C1_OmitAuthoritative ==
    OmitIdx # {} => typeRestriction = OmitPolicy(fed[MaxOf(OmitIdx)][2])

\* C1 witness: an 'omit' pair with a legacy pair before it and one after it.
C1_Witness ==
    /\ Len(fed) = 3
    /\ fed[1] = <<"only", "dev">>
    /\ fed[2][1] = "omit"
    /\ fed[3] = <<"production", "true">>

\* C2 as stated: with no 'omit' pair, the first 'only'/'production' pair
\* determines the TypeRestriction whatever its value is, and no later
\* 'only'/'production' pair changes it.
C2_FirstLegacyPairWins ==
    (OmitIdx = {} /\ LegacyIdx # {}) =>
        typeRestriction =
            LegacyPolicy(fed[MinOf(LegacyIdx)][1], fed[MinOf(LegacyIdx)][2])

\* C2 amended: with no 'omit' pair, the first 'only'/'production' pair that
\* implies a restriction determines the TypeRestriction and no later pair
\* changes it; while no such pair has been fed the state is still Unset.
EffectiveIdx ==
    {i \in LegacyIdx : LegacyPolicy(fed[i][1], fed[i][2]) # DefaultRestriction}

C2_FirstEffectiveLegacyPairWins ==
    OmitIdx = {} =>
        typeRestriction =
            IF EffectiveIdx = {} THEN DefaultRestriction
            ELSE LegacyPolicy(fed[MinOf(EffectiveIdx)][1], fed[MinOf(EffectiveIdx)][2])

\* C2 witness: an ineffective legacy pair, then an effective one, then a
\* different effective one that must not override it.
C2_Witness ==
    /\ Len(fed) = 3
    /\ fed[1] = <<"production", "false">>
    /\ fed[2] = <<"only", "dev">>
    /\ fed[3] = <<"only", "production">>
    /\ typeRestriction = DevOnly

(***************************************************************************)
(* Claims about the transformer                                            *)
(***************************************************************************)

\* The step is one run of the loop body, on the line CurLine.
LoopStep ==
    /\ tpc = "scanning"
    /\ tpc' = "scanning"
    /\ pos' = pos + 1

LeftPart(l) == SplitN2(l, "=")[1]
HasAssign(l) == Len(SplitN2(l, "=")) = 2

\* A non-empty line whose trimmed key neither begins with '@' nor is accepted
\* by the allow-list.
Unrecognized(l) ==
    /\ l # ""
    /\ ~HasPrefix(TrimSpace(LeftPart(l)), "@")
    /\ TrimSpace(LeftPart(l)) \notin validKeys

\* C3: a non-empty line whose trimmed key does not begin with '@' and is not
\* accepted by the allow-list adds nothing to the output, raises no error and
\* does not stop the loop.
C3_UnrecognizedLineDropped ==
    [][(LoopStep /\ Unrecognized(CurLine)) =>
          /\ filteredConf' = filteredConf
          /\ configData' = configData
          /\ prepErr' = ""]_vars

\* C3 witness: a dump made of one unrecognized 'key=value' line has been
\* transformed and the output holds the three synthesized lines only.
C3_Witness ==
    /\ tpc = "returned"
    /\ data = "cache=/home/u/.npm "
    /\ "cache" \notin validKeys
    /\ prepErr = ""
    /\ configData = "json = " \o FormatBool(jsonOutput) \o "\nregistry = https://auth\n//auth.line"

\* The text the step appends to the output.
Emitted == SubSeq(Join(filteredConf'), Len(Join(filteredConf)) + 1, Len(Join(filteredConf')))

\* C4: the loop body, run on a line 'left = right' whose left part begins
\* with '@', emits exactly one line, which assigns the authenticated registry
\* to that scoped key, whether or not the allow-list accepts the key.
C4_ScopedLineAlwaysRewritten ==
    [][(LoopStep /\ HasAssign(CurLine) /\ HasPrefix(LeftPart(CurLine), "@")) =>
          /\ Join(filteredConf') = Join(filteredConf) \o Emitted
          /\ HasSuffix(Emitted, "\n")
          /\ Len(Split(Emitted, "\n")) = 2
          /\ HasAssign(Emitted)
          /\ TrimSpace(SplitN2(Emitted, "=")[1]) = TrimSpace(LeftPart(CurLine))
          /\ TrimSpace(SplitN2(Emitted, "=")[2]) = registry]_vars

\* The three synthesized items, in their order.
SynthesizedText ==
    "json = " \o FormatBool(jsonOutput) \o "\n"
        \o "registry = " \o registry \o "\n"
        \o npmAuth

\* The index of the last line of the output that assigns to key, 0 if none.
LastAssignment(out, key) ==
    LET ls == Split(out, "\n")
        hits == {i \in 1..Len(ls) : HasAssign(ls[i]) /\ TrimSpace(LeftPart(ls[i])) = key}
    IN IF hits = {} THEN 0 ELSE CHOOSE i \in hits : \A j \in hits : j <= i

\* C5: when prepareConfigData succeeds, its output is the source-derived
\* lines followed by 'json = <flag>', 'registry = <registry>' and the
\* credential line, in that order and with nothing after them; the last
\* 'json' and the last 'registry' assignment of the output are those two.
C5_SynthesizedLinesLast ==
    (tpc = "returned" /\ prepErr = "") =>
        LET n == Len(Split(configData, "\n"))
        IN /\ HasSuffix(configData, SynthesizedText)
           /\ Split(configData, "\n")[n] = npmAuth
           /\ Split(configData, "\n")[n - 1] = "registry = " \o registry
           /\ Split(configData, "\n")[n - 2] = "json = " \o FormatBool(jsonOutput)
           /\ LastAssignment(configData, "registry") = n - 1
           /\ LastAssignment(configData, "json") = n - 2

\* C5 witness: the source has a 'registry' line of its own, which the
\* allow-list lets through, and the output still ends with the synthesized one.
C5_Witness ==
    /\ tpc = "returned"
    /\ prepErr = ""
    /\ data = "registry = https://old\nomit = [dev]"
    /\ "registry" \in validKeys
    /\ HasPrefix(configData, "registry = https://old\n")

(***************************************************************************)
(* Claims about the command                                                *)
(***************************************************************************)
Npmrc == files[npmrcFileName]
Backup == files[npmrcBackupFileName]

\* C6: when GetConfigList fails, createTempNpmrc returns that failure and
\* has neither removed the existing .npmrc nor written a new one.
C6_FetchFailureSurfaced ==
    [][(pc = "createTempNpmrc" /\ "fetch" \in failed') =>
          /\ Contains(lastErr', ErrFetch)
          /\ pc' = "restoreNpmrcAndError"
          /\ files' = files
          /\ ops' = ops]_vars

\* C7: restoreNpmrcAndError(err) calls the restore action once; it returns
\* err itself when the restore succeeds, and one error that contains both the
\* restore failure and err, and is neither of them alone, when it fails.
C7_RestoreAndErrorCombines ==
    [][pc = "restoreNpmrcAndError" =>
          /\ restoreCalls' = restoreCalls + 1
          /\ restoreErr' = "" => retErr' = lastErr
          /\ restoreErr' # "" =>
                /\ Contains(retErr', restoreErr')
                /\ Contains(retErr', lastErr)
                /\ retErr' # restoreErr'
                /\ retErr' # lastErr]_vars

\* C7 witness: restoreNpmrcAndError has returned after a failed write and a
\* failed restore.
C7_Witness ==
    /\ pc = "done"
    /\ lastErr = ErrWrite
    /\ restoreErr = ErrRestoreMove
    /\ restoreCalls = 1
    /\ retErr = "Two errors occurred:\n " \o ErrRestoreMove \o "\n " \o ErrWrite

\* createTempNpmrc has written the override and returned nil.
RewriteSucceeded ==
    /\ restoreNpmrcFunc.set
    /\ Len(ops) > 0
    /\ \E i \in 1..Len(ops) : ops[i] = "write"
    /\ "write" \notin failed

\* C8: after a successful backup, a successful createTempNpmrc and one
\* successful call of the restore action, the .npmrc is what it was before
\* the command (absent if it was absent) and no backup file remains.
C8_RoundTrip ==
    (pc = "done" /\ RewriteSucceeded /\ restoreCalls = 1 /\ restoreErr = "") =>
        /\ Npmrc = origNpmrc
        /\ ~Backup.exists

\* C8 witness: an existing .npmrc was replaced by the override and is back.
C8_Witness ==
    /\ pc = "done"
    /\ RewriteSucceeded
    /\ restoreCalls = 1
    /\ restoreErr = ""
    /\ origNpmrc = File("registry = https://mine\n; mine\n")
    /\ ops = <<"remove", "write", "restore">>
    /\ configData # origNpmrc.content
    /\ Npmrc = origNpmrc

\* C9: when the write of the override fails after a successful backup, the
\* error the command reports contains the write failure, and once the
\* restore action has run successfully the .npmrc is what it was before.
C9_WriteFailureRestored ==
    (pc = "done" /\ "write" \in failed) =>
        /\ Contains(retErr, ErrWrite)
        /\ restoreCalls = 1
        /\ restoreErr = "" => (Npmrc = origNpmrc /\ ~Backup.exists)

\* C9 witness: the old .npmrc was removed, the write failed leaving part of
\* the override, and the restore brought the old file back.
C9_Witness ==
    /\ pc = "done"
    /\ "write" \in failed
    /\ origNpmrc = File("registry = https://mine\n; mine\n")
    /\ ops = <<"remove", "write", "restore">>
    /\ restoreErr = ""
    /\ retErr = ErrWrite
    /\ Npmrc = origNpmrc

\* C10: after a successful backup the restore action is never called twice
\* and has been called once when the command returns; and when the fetch, the
\* transformation, the removal or the write failed, the command returns an
\* error, with the restore as the last thing done before it.
C10_RestoreOnceOnEveryExit ==
    /\ restoreCalls <= 1
    /\ (pc = "done" /\ restoreNpmrcFunc.set) => restoreCalls = 1
    /\ (pc = "done" /\ restoreNpmrcFunc.set
            /\ failed \cap {"fetch", "transform", "remove", "write"} # {}) =>
          /\ retErr # ""
          /\ ops[Len(ops)] = "restore"


\* The error e names both the failure cause and a restore failure.
CombinedFailure(e, cause) ==
    /\ cause # ""
    /\ Contains(e, cause)
    /\ \E r \in {ErrRestoreDelete, ErrRestoreMove} : Contains(e, r)

\* C11 as stated: when createTempNpmrc itself returns, the .npmrc is the
\* original, or the rewritten text, or the returned error is a combined
\* failure; it never returns a plain error with the .npmrc missing or partial.
C11_CreateTempNpmrcNoPartialState ==
    [][pc = "createTempNpmrc" =>
          \/ Npmrc' = origNpmrc
          \/ Npmrc' = File(configData')
          \/ \E cause \in {ErrTooLong, ErrRemove, ErrWrite} :
                CombinedFailure(lastErr', cause)]_vars

\* The rewrite sequence has returned to its caller: createTempNpmrc returned
\* nil, or it returned an error and restoreNpmrcAndError has run on it.
RewriteReturned ==
    \/ pc = "runNpm"
    \/ pc = "done" /\ restoreNpmrcFunc.set /\ lastErr # "" /\ "npm" \notin failed

\* C11 amended: when the rewrite sequence (createTempNpmrc, followed on its
\* error by restoreNpmrcAndError) returns, the .npmrc is the original, or the
\* rewritten text, or the returned error names both the failure and the
\* restore failure.
C11_RewriteNoPartialState ==
    RewriteReturned =>
        \/ Npmrc = origNpmrc
        \/ pc = "runNpm" /\ Npmrc = File(configData)
        \/ CombinedFailure(retErr, lastErr) /\ Contains(retErr, restoreErr) /\ restoreErr # ""

\* C11 witness: the write failed, the restore failed too, the .npmrc that
\* existed is gone and the error returned names both failures.
C11_Witness ==
    /\ RewriteReturned
    /\ pc = "done"
    /\ origNpmrc.exists
    /\ ~Npmrc.exists
    /\ "write" \in failed
    /\ CombinedFailure(retErr, ErrWrite)


\* C12: for the four-line scenario, with JSON flag true and an allow-list
\* that accepts 'omit' and 'only' and not '@myscope', prepareConfigData leaves
\* ProdOnly and its output ends with exactly '@myscope = https://auth',
\* 'json = true', 'registry = https://auth', '//auth.line', with the line
\* 'only = production' earlier in the output.
C12_ScenarioOutput ==
    (tpc = "returned" /\ runs = 1 /\ data = ScenarioDump /\ jsonOutput
        /\ {"omit", "only"} \subseteq validKeys /\ "@myscope" \notin validKeys) =>
        LET ls == Split(configData, "\n")
            n == Len(ls)
        IN /\ prepErr = ""
           /\ typeRestriction = ProdOnly
           /\ n >= 5
           /\ ls[n - 3] = "@myscope = https://auth"
           /\ ls[n - 2] = "json = true"
           /\ ls[n - 1] = "registry = https://auth"
           /\ ls[n] = "//auth.line"
           /\ \E i \in 1..(n - 4) : ls[i] = "only = production"


\* C13: on an empty dump prepareConfigData returns without error, its output
\* is exactly the json line, the registry line and the credential line, no
\* pair is fed to the resolver and com.typeRestriction is what it was when
\* the call began (Unset stays Unset on a first call).
C13_EmptyDump ==
    [][/\ (tpc = "scanning" /\ data = "") =>
              /\ tpc' = "returned"
              /\ prepErr' = ""
              /\ configData' = SynthesizedText
              /\ typeRestriction' = typeRestriction
              /\ fed' = fed
       /\ (tpc' = "scanning" /\ data' = "" /\ pos' = 0) =>
              /\ typeRestriction' = typeRestriction
              /\ (runs' = 1 => typeRestriction' = DefaultRestriction)]_vars

C13_Witness ==
    /\ tpc = "returned"
    /\ data = ""
    /\ runs = 1
    /\ prepErr = ""
    /\ configData = SynthesizedText
    /\ typeRestriction = DefaultRestriction


\* C14: a line that holds no '=' at all, one that begins with '@' included,
\* adds nothing to the output, leaves com.typeRestriction as it is, feeds
\* nothing to the resolver and raises no error.
C14_NoAssignLineIsNoOp ==
    [][(LoopStep /\ ~HasAssign(CurLine)) =>
          /\ filteredConf' = filteredConf
          /\ typeRestriction' = typeRestriction
          /\ fed' = fed
          /\ prepErr' = ""]_vars


\* A line with a recognized key whose trimmed value is not bracket-delimited.
RecognizedScalar(l) ==
    /\ l # ""
    /\ HasAssign(l)
    /\ TrimSpace(LeftPart(l)) \in validKeys
    /\ ~(HasPrefix(TrimSpace(SplitN2(l, "=")[2]), "[")
            /\ HasSuffix(TrimSpace(SplitN2(l, "=")[2]), "]"))

\* C15: the output before the three synthesized lines preserves the source:
\* a recognized scalar line is emitted as the very bytes it has in the dump,
\* every loop iteration only appends to what earlier lines produced, so the
\* source-derived lines keep the order of the input lines, and the returned
\* text is those lines followed by the synthesized ones.
C15_SourcePreserved ==
    [][/\ LoopStep =>
              /\ Len(filteredConf') >= Len(filteredConf)
              /\ SubSeq(filteredConf', 1, Len(filteredConf)) = filteredConf
       /\ (LoopStep /\ RecognizedScalar(CurLine)) =>
              /\ Join(filteredConf') = Join(filteredConf) \o CurLine \o "\n"
              /\ Contains(data, CurLine)
       /\ (tpc = "scanning" /\ tpc' = "returned" /\ prepErr' = "") =>
              configData' = Join(filteredConf) \o SynthesizedText]_vars

C15_Witness ==
    /\ tpc = "returned"
    /\ prepErr = ""
    /\ data = "@myscope = https://old2\ncache=/home/u/.npm "
    /\ validKeys = {"omit", "only", "production", "cache"}
    /\ configData = "@myscope  = https://auth\ncache=/home/u/.npm \n" \o SynthesizedText


\* A non-empty line 'left = right' whose trimmed key the allow-list accepts.
Recognized(l) ==
    /\ l # ""
    /\ HasAssign(l)
    /\ TrimSpace(LeftPart(l)) \in validKeys

\* C16: the loop passes to the resolver the trimmed (key, value) pair of each
\* recognized line, scalar or array-valued, in input order, and nothing else:
\* an empty line, a line without '=', a line the allow-list rejects and a
\* scoped-registry line leave com.typeRestriction as it is.
C16_ResolverFedRecognizedPairs ==
    [][LoopStep =>
          /\ IF Recognized(CurLine)
             THEN /\ fed' = Append(fed, <<TrimSpace(LeftPart(CurLine)),
                                          TrimSpace(SplitN2(CurLine, "=")[2])>>)
                  /\ typeRestriction' =
                         setTypeRestriction(typeRestriction,
                                            fed'[Len(fed')][1], fed'[Len(fed')][2])
             ELSE /\ fed' = fed
                  /\ typeRestriction' = typeRestriction
          /\ HasPrefix(TrimSpace(LeftPart(CurLine)), "@") =>
                 typeRestriction' = typeRestriction]_vars

C16_Witness ==
    /\ tpc = "returned"
    /\ runs = 1
    /\ data = "omit = [dev]\nregistry = https://old"
    /\ "registry" \notin validKeys
    /\ fed = << <<"omit", "[dev]">> >>
    /\ typeRestriction = ProdOnly


\* C17: when prepareConfigData returns, com.typeRestriction is the value the
\* resolver reaches from Unset on the pairs of that call's dump alone, also on
\* a second call made on the same CommonArgs.
C17_RestrictionFunctionOfDump ==
    tpc = "returned" =>
        typeRestriction = prepareConfigData(DefaultRestriction, data).typeRestriction


\* The pair the resolver has consumed in the step.
FedKey == fed'[Len(fed')][1]
FedValue == fed'[Len(fed')][2]

\* C18: on every pair fed to the resolver: a TypeRestriction that is not
\* Unset never becomes Unset again and is changed by an 'omit' pair only; a
\* pair whose key is none of 'omit', 'only', 'production' changes nothing;
\* and the state becomes DevOnly only from Unset, on an 'only' pair whose
\* value contains "dev" and does not contain "prod".
C18_ResolverTransitions ==
    [][Len(fed') = Len(fed) + 1 =>
          /\ typeRestriction # DefaultRestriction =>
                 /\ typeRestriction' # DefaultRestriction
                 /\ (typeRestriction' # typeRestriction => FedKey = "omit")
          /\ FedKey \notin {"omit", "only", "production"} =>
                 typeRestriction' = typeRestriction
          /\ (typeRestriction' = DevOnly /\ typeRestriction # DevOnly) =>
                 /\ typeRestriction = DefaultRestriction
                 /\ FedKey = "only"
                 /\ Contains(FedValue, "dev")
                 /\ ~Contains(FedValue, "prod")]_vars

C18_Witness ==
    /\ fed = << <<"include", "dev">>, <<"only", "dev">>, <<"production", "true">> >>
    /\ typeRestriction = DevOnly


\* The file operations createTempNpmrc has attempted in the step.
NewOps == SubSeq(ops', Len(ops) + 1, Len(ops'))

\* C19: when prepareConfigData fails it returns no bytes and createTempNpmrc
\* returns that error with the working directory untouched: no removal and no
\* write has been attempted. Otherwise the old .npmrc, when there is one, is
\* removed first and the write is attempted next, unless the removal fails;
\* no removal follows a write attempt and no write is attempted over an
\* existing file.
C19_TransformFailureNotDestructive ==
    [][(pc = "createTempNpmrc" /\ pc' # pc) =>
          /\ prepErr' # "" =>
                 /\ configData' = ""
                 /\ lastErr' = prepErr'
                 /\ files' = files
                 /\ NewOps = <<>>
                 /\ pc' = "restoreNpmrcAndError"
          /\ NewOps \in {<<>>, <<"remove">>, <<"write">>, <<"remove", "write">>}
          /\ NewOps = <<>> => prepErr' # ""
          /\ NewOps = <<"remove">> => ("remove" \in failed' /\ files' = files)
          /\ NewOps = <<"write">> => ~Npmrc.exists
          /\ NewOps = <<"remove", "write">> => Npmrc.exists]_vars

C19_Witness ==
    /\ pc = "restoreNpmrcAndError"
    /\ "transform" \in failed
    /\ prepErr = ErrTooLong
    /\ lastErr = ErrTooLong
    /\ configData = ""
    /\ origNpmrc.exists
    /\ Npmrc = origNpmrc
    /\ restoreCalls = 0

====
